---------------------------- MODULE Spec2Model ----------------------------
(***************************************************************************)
(* A model of the sp500-scanner repository: the multithreaded S&P 500      *)
(* Golden Cross scanner (sp500_scanner.py) and the valuation functions     *)
(* (discounted_cash_flow.py, intrinsic_value.py, stock_dashboard.py).      *)
(*                                                                         *)
(* Ticker symbols are the integers 1..n, their alphabetical order being    *)
(* the order of the integers.  A price history is the sequence of its      *)
(* closing prices; the date of a sample is its index in the sequence.      *)
(***************************************************************************)
EXTENDS Integers, Sequences, FiniteSets, Bags, TLC

VARIABLES
    tickers,     \* main: the ticker list get_sp500_tickers_with_info returns
    provider,    \* what the data provider answers for each list position
    hung,        \* list positions whose provider call never returns
    pc,          \* main: where the main thread stands
    submitted,   \* main: number of futures in the list `futures`
    unit,        \* executor: state of each submitted work item
    future,      \* executor: outcome stored in each future
    threads,     \* executor: number of worker threads of the pool
    idx,         \* main: position of `for future in futures`
    results,     \* main: the list `results`
    df_results,  \* main: the table df_results
    sink,        \* main: what was persisted, and where
    starts,      \* history: number of process_ticker calls per list position
    fetches,     \* history: provider calls made by each unit, in order
    completed,   \* history: list positions in the order their units completed
    dcf_in,      \* valuation: the inputs of one DCF evaluation
    dcf_out,     \* valuation: the outcomes of the DCF functions on dcf_in
    call_in,     \* valuation and signals: the arguments of one call
    call_out,    \* valuation and signals: what the call on call_in gave
    calendar,    \* calendar sync: the events of the calendar, a bag
    sync         \* calendar sync: the earnings data and where the script stands

vars == <<tickers, provider, hung, pc, submitted, unit, future, threads, idx,
          results, df_results, sink, starts, fetches, completed, dcf_in, dcf_out,
          call_in, call_out, calendar, sync>>

scanVars == <<tickers, provider, hung, pc, submitted, unit, future, threads,
              idx, results, df_results, sink, starts, fetches, completed>>

(***************************************************************************)
(* Bounds of the model and constants of the program.                       *)
(***************************************************************************)
MaxTickers == 3       \* longest ticker list of the small scans
PoolTickers == 11     \* length of the ticker list of the pool scans
MaxWorkers == 10      \* ThreadPoolExecutor(max_workers=10)
ShortWindow == 50     \* calculate_golden_cross(short_window=50)
LongWindow == 200     \* calculate_golden_cross(long_window=200)

\* Python's None and an optional value: << >> is None, <<v>> is the value v
NoneVal == << >>
Some(v) == <<v>>
IsNone(o) == o = << >>
Get(o) == o[1]

\* no calendar sync is under way
NoSync ==
    /\ calendar = << >>
    /\ sync = NoneVal

(***************************************************************************)
(* Sequence helpers.                                                       *)
(***************************************************************************)
RECURSIVE SumRange(_, _, _)
SumRange(s, a, b) ==
    IF a > b THEN 0
    ELSE IF a = b THEN s[a]
    ELSE LET m == (a + b) \div 2
         IN  SumRange(s, a, m) + SumRange(s, m + 1, b)

(***************************************************************************)
(* calculate_golden_cross.  rolling(window).mean() is undefined (NaN) on   *)
(* the first window-1 samples and every comparison with NaN is False, so   *)
(* a comparison of two means holds only where both are defined.  Means are *)
(* compared by cross-multiplying the window sums.                          *)
(***************************************************************************)
SmaDefined(s, w, t) == t >= w /\ t >= 1 /\ t <= Len(s)

SmaSum(s, w, t) == SumRange(s, t - w + 1, t)

\* sma_short[t] > sma_long[t]
SmaAbove(s, sw, lw, t) ==
    /\ SmaDefined(s, sw, t)
    /\ SmaDefined(s, lw, t)
    /\ SmaSum(s, sw, t) * lw > SmaSum(s, lw, t) * sw

\* A mutant of PrevSmaNotAbove: a tie on the previous sample is no cross.
PrevSmaBelow(s, sw, lw, t) ==
    /\ SmaDefined(s, sw, t - 1)
    /\ SmaDefined(s, lw, t - 1)
    /\ SmaSum(s, sw, t - 1) * lw < SmaSum(s, lw, t - 1) * sw

\* prev_sma_short[t] <= prev_sma_long[t], the averages shifted by one sample
PrevSmaNotAbove(s, sw, lw, t) ==
    /\ SmaDefined(s, sw, t - 1)
    /\ SmaDefined(s, lw, t - 1)
    /\ SmaSum(s, sw, t - 1) * lw <= SmaSum(s, lw, t - 1) * sw

CrossDates(s, sw, lw) ==
    {t \in 1..Len(s) : SmaAbove(s, sw, lw, t) /\ PrevSmaNotAbove(s, sw, lw, t)}

\* A mutant of SetMax: cross_dates[0], the first cross.
SetMin(S) == CHOOSE x \in S : \A y \in S : x <= y

\* cross_dates[-1] of a non-empty index
SetMax(S) == CHOOSE x \in S : \A y \in S : y <= x

\* A mutant of calculate_golden_cross: a history of exactly long_window
\* samples is turned away.
calculate_golden_cross_off_by_one(df, short_window, long_window) ==
    IF IsNone(df) \/ Len(Get(df)) <= long_window
    THEN [cross_date |-> NoneVal, is_bullish |-> NoneVal]
    ELSE LET s == Get(df)
             cross_dates == CrossDates(s, short_window, long_window)
         IN  [cross_date |-> IF cross_dates = {} THEN NoneVal
                             ELSE Some(SetMax(cross_dates)),
              is_bullish |-> Some(SmaAbove(s, short_window, long_window, Len(s)))]

\* A mutant of calculate_golden_cross: bullish means a cross was found.
calculate_golden_cross_bullish_if_crossed(df, short_window, long_window) ==
    IF IsNone(df) \/ Len(Get(df)) < long_window
    THEN [cross_date |-> NoneVal, is_bullish |-> NoneVal]
    ELSE LET s == Get(df)
             cross_dates == CrossDates(s, short_window, long_window)
         IN  [cross_date |-> IF cross_dates = {} THEN NoneVal
                             ELSE Some(SetMax(cross_dates)),
              is_bullish |-> Some(cross_dates # {})]

\* df is optional: NoneVal is `df is None`, Some(s) the series s of closes.
\* Returns the pair (cross_date, is_bullish), each optional.
calculate_golden_cross(df, short_window, long_window) ==
    IF IsNone(df) \/ Len(Get(df)) < long_window
    THEN [cross_date |-> NoneVal, is_bullish |-> NoneVal]
    ELSE LET s == Get(df)
             cross_dates == CrossDates(s, short_window, long_window)
         IN  [cross_date |-> IF cross_dates = {} THEN NoneVal
                             ELSE Some(SetMax(cross_dates)),
              is_bullish |-> IF Len(s) = 0 THEN Some(FALSE)
                             ELSE Some(SmaAbove(s, short_window, long_window, Len(s)))]

\* A mutant of Truthy: `is_bullish is not False`, which None passes.
TruthyNotFalse(b) == b # Some(FALSE)

\* Python truthiness of an optional boolean: None and False are falsy
Truthy(b) == b = Some(TRUE)

(***************************************************************************)
(* The price histories the provider may answer with.                       *)
(***************************************************************************)
HistoryNames == {"empty", "short", "flat_then_up", "falling", "rising"}

History(n) ==
    CASE n = "empty"        -> << >>
      [] n = "short"        -> [k \in 1..(LongWindow - 1) |-> 10 + k]
      [] n = "flat_then_up" -> [k \in 1..(LongWindow + 2) |->
                                   IF k <= LongWindow THEN 10 ELSE 60]
      [] n = "falling"      -> [k \in 1..(LongWindow + 1) |-> LongWindow + 10 - k]
      [] n = "rising"       -> [k \in 1..LongWindow |-> k]

\* calculate_golden_cross(hist) with the default windows, once per history
GoldenCrossOf ==
    [n \in HistoryNames |->
        calculate_golden_cross(Some(History(n)), ShortWindow, LongWindow)]


(***************************************************************************)
(* process_ticker.  A provider answer p is a record                        *)
(*   info   : "raise" (stock.info raises), "absent" (no marketCap key),    *)
(*            "none" (marketCap is None) or "num" with the value in mcap   *)
(*   daily  : "raise" or the name of the 2-year daily history              *)
(*   hourly : "raise" or the name of the 1-month hourly history            *)
(***************************************************************************)
SecurityName(ticker) == ticker     \* security_names.get(ticker, ticker)

\* info.get('marketCap', 'N/A')
MarketCapOf(p) ==
    CASE p.info = "num"    -> [kind |-> "num", v |-> p.mcap]
      [] p.info = "absent" -> [kind |-> "N/A", v |-> 0]
      [] OTHER             -> [kind |-> "None", v |-> 0]

\* strftime of a sample's date; the date of a sample is its index
FormatDate(d) == IF IsNone(d) THEN "N/A" ELSE ToString(Get(d))

\* The body of the try block: kind is "return" with the row, or "raise".
\* A mutant of process_ticker_body: the hourly history is fetched and the
\* detector run on it whatever the daily detector said.
process_ticker_body_hourly_always(ticker, p) ==
    IF p.info = "raise" THEN [kind |-> "raise", value |-> NoneVal, calls |-> <<"info">>]
    ELSE IF p.daily = "raise"
    THEN [kind |-> "raise", value |-> NoneVal, calls |-> <<"info", "daily">>]
    ELSE IF p.hourly = "raise"
    THEN [kind |-> "raise", value |-> NoneVal, calls |-> <<"info", "daily", "hourly">>]
    ELSE LET gc == GoldenCrossOf[p.daily]
         IN  [kind |-> "return",
              value |-> Some([Ticker |-> ticker, Name |-> SecurityName(ticker),
                              MarketCap |-> MarketCapOf(p),
                              DailyGoldenCrossDate |-> FormatDate(gc.cross_date),
                              Status |-> IF Truthy(gc.is_bullish) THEN "Bullish" ELSE "Bearish",
                              HourlyGoldenCrossDate |->
                                  FormatDate(GoldenCrossOf[p.hourly].cross_date)]),
              calls |-> <<"info", "daily", "hourly">>]

process_ticker_body(ticker, p) ==
    IF p.info = "raise"
    THEN [kind |-> "raise", value |-> NoneVal, calls |-> <<"info">>]
    ELSE IF p.daily = "raise"
    THEN [kind |-> "raise", value |-> NoneVal, calls |-> <<"info", "daily">>]
    ELSE LET gc == GoldenCrossOf[p.daily]
             is_bullish == Truthy(gc.is_bullish)
             status == IF is_bullish THEN "Bullish" ELSE "Bearish"
         IN  IF is_bullish /\ p.hourly = "raise"
             THEN [kind |-> "raise", value |-> NoneVal,
                   calls |-> <<"info", "daily", "hourly">>]
             ELSE [kind |-> "return",
                   value |-> Some([Ticker |-> ticker,
                                   Name |-> SecurityName(ticker),
                                   MarketCap |-> MarketCapOf(p),
                                   DailyGoldenCrossDate |-> FormatDate(gc.cross_date),
                                   Status |-> status,
                                   HourlyGoldenCrossDate |->
                                       IF is_bullish
                                       THEN FormatDate(GoldenCrossOf[p.hourly].cross_date)
                                       ELSE "N/A"]),
                   calls |-> IF is_bullish THEN <<"info", "daily", "hourly">>
                             ELSE <<"info", "daily">>]

\* A mutant of process_ticker: no try/except around the body.
process_ticker_uncaught(ticker, p) == process_ticker_body(ticker, p)

\* try: body; except Exception: return None
process_ticker(ticker, p) ==
    LET r == process_ticker_body(ticker, p)
    IN  IF r.kind = "raise"
        THEN [kind |-> "return", value |-> NoneVal, calls |-> r.calls]
        ELSE r

(***************************************************************************)
(* The table sort of main: pd.to_numeric(errors='coerce') and              *)
(* sort_values(ascending=False) with its defaults (quicksort, NaN last).   *)
(***************************************************************************)
\* pd.to_numeric(x, errors='coerce'): the number, or NaN (none)
to_numeric(cap) == IF cap.kind = "num" THEN Some(cap.v) ELSE NoneVal

IsNumeric(row) == ~IsNone(to_numeric(row.MarketCap))

Numeric(row) == Get(to_numeric(row.MarketCap))

\* The orders quicksort may leave a set S of positions of rows in, largest
\* key first; the order of equal keys is not specified.
RECURSIVE DescendingOrders(_, _)
DescendingOrders(rows, S) ==
    IF S = {} THEN {<< >>}
    ELSE UNION {{<<k>> \o t : t \in DescendingOrders(rows, S \ {k})} :
                k \in {k \in S : \A j \in S : Numeric(rows[j]) <= Numeric(rows[k])}}

\* The positions of S in increasing order
RECURSIVE InOrder(_)
InOrder(S) ==
    IF S = {} THEN << >>
    ELSE LET m == CHOOSE x \in S : \A y \in S : x <= y
         IN  <<m>> \o InOrder(S \ {m})

\* A mutant of sort_values: the table is left as collected.
sort_values_skipped(rows) == {rows}

\* sort_values: the rows with a number in some descending order, then the
\* rows with NaN in the order they had
sort_values(rows) ==
    LET num == {k \in 1..Len(rows) : IsNumeric(rows[k])}
        nan == {k \in 1..Len(rows) : ~IsNumeric(rows[k])}
    IN  {[n \in 1..Len(rows) |-> rows[(o \o InOrder(nan))[n]]] :
            o \in DescendingOrders(rows, num)}

(***************************************************************************)
(* The thread pool of main: ThreadPoolExecutor(max_workers=10).            *)
(***************************************************************************)
N == Len(tickers)

Running == {k \in 1..N : unit[k] = "running"}

Queued == {k \in 1..N : unit[k] = "queued"}

\* A mutant of CanSpawnThread: the pool width is not enforced.
CanSpawnThreadUnbounded == TRUE

\* A mutant of CanSpawnThread: a pool of one worker.
CanSpawnThreadSingle == threads < 1

\* submit starts a new worker thread only below max_workers
CanSpawnThread == threads < MaxWorkers

\* submit starts no thread while an idle worker can take the item
IdleWorkers == threads - Cardinality(Running) - Cardinality(Queued)

\* A mutant of NextFuture: the loop takes the futures as they complete
\* (as_completed), waiting while fewer than idx have completed.
NextFutureAsCompleted ==
    IF idx <= Len(completed) THEN completed[idx]
    ELSE CHOOSE k \in 1..N : unit[k] # "done"

\* for future in futures: the loop takes the futures in the order of the list
NextFuture == idx

\* A mutant of FutureReady: the loop does not wait for the future.
FutureReadyNoWait(k) == TRUE

\* future.result() blocks until the work item has finished
FutureReady(k) == unit[k] = "done"

\* what the worker stores in the future: process_ticker(ticker, security_names)
WorkItemOutcome(k) == process_ticker(tickers[k], provider[k])

(***************************************************************************)
(* main.                                                                   *)
(***************************************************************************)
\* tickers, security_names = get_sp500_tickers_with_info(); if not tickers: return
FetchTickers ==
    /\ pc = "start"
    /\ pc' = IF tickers = << >> THEN "done" ELSE "submit"
    /\ UNCHANGED <<calendar, sync, call_in, call_out, dcf_in, dcf_out, tickers, provider, hung, submitted, unit, future, threads, idx,
                   results, df_results, sink, starts, fetches, completed>>

\* futures = [executor.submit(process_ticker, ticker, security_names) ...]
Submit ==
    /\ pc = "submit"
    /\ submitted < N
    /\ submitted' = submitted + 1
    /\ unit' = [unit EXCEPT ![submitted + 1] = "queued"]
    /\ threads' = IF IdleWorkers <= 0 /\ CanSpawnThread THEN threads + 1 ELSE threads
    /\ pc' = IF submitted + 1 = N THEN "collect" ELSE "submit"
    /\ UNCHANGED <<calendar, sync, call_in, call_out, dcf_in, dcf_out, tickers, provider, hung, future, idx, results, df_results,
                   sink, starts, fetches, completed>>

\* A mutant of Startable: a unit that returned no row is run once more.
StartableRetry(k) ==
    \/ unit[k] = "queued"
    \/ unit[k] = "done" /\ IsNone(future[k].value) /\ starts[k] < 2

\* a work item is on the queue from its submit until a worker takes it
Startable(k) == unit[k] = "queued"

\* a worker thread takes the oldest item of the work queue and calls it
Start(k) ==
    /\ Startable(k)
    /\ \A j \in Queued : k <= j
    /\ Cardinality(Running) < threads
    /\ unit' = [unit EXCEPT ![k] = "running"]
    /\ starts' = [starts EXCEPT ![k] = @ + 1]
    /\ UNCHANGED <<calendar, sync, call_in, call_out, dcf_in, dcf_out, tickers, provider, hung, pc, submitted, future, threads, idx,
                   results, df_results, sink, fetches, completed>>

\* the call returns (or raises) and the worker sets the future
FinishUnit(k) ==
    /\ unit[k] = "running"
    /\ k \notin hung
    /\ LET r == WorkItemOutcome(k)
       IN  /\ fetches' = [fetches EXCEPT ![k] = @ \o r.calls]
           /\ future' = [future EXCEPT ![k] = [kind |-> r.kind, value |-> r.value]]
           /\ unit' = [unit EXCEPT ![k] = "done"]
    /\ UNCHANGED <<calendar, sync, call_in, call_out, dcf_in, dcf_out, tickers, provider, hung, pc, submitted, threads, idx,
                   results, df_results, sink, starts>>

Finish(k) ==
    /\ FinishUnit(k)
    /\ completed' = Append(completed, k)

\* for future in futures: res = future.result(); if res: results.append(res)
\* An exception of the call is raised again by result() and leaves main.
Collect ==
    /\ pc = "collect"
    /\ idx <= N
    /\ FutureReady(NextFuture)
    /\ IF future[NextFuture].kind = "raise"
       THEN /\ pc' = "raised"
            /\ UNCHANGED <<idx, results>>
       ELSE /\ results' = IF IsNone(future[NextFuture].value) THEN results
                          ELSE Append(results, Get(future[NextFuture].value))
            /\ idx' = idx + 1
            /\ pc' = IF idx = N THEN "shutdown" ELSE "collect"
    /\ UNCHANGED <<calendar, sync, call_in, call_out, dcf_in, dcf_out, tickers, provider, hung, submitted, unit, future, threads,
                   df_results, sink, starts, fetches, completed>>

\* leaving the with block: executor.shutdown(wait=True)
Shutdown ==
    /\ pc = "shutdown"
    /\ Running = {} /\ Queued = {}
    /\ pc' = "sort"
    /\ UNCHANGED <<calendar, sync, call_in, call_out, dcf_in, dcf_out, tickers, provider, hung, submitted, unit, future, threads, idx,
                   results, df_results, sink, starts, fetches, completed>>

\* df_results = pd.DataFrame(results); try: sort by market cap; except: pass
\* (an empty table has no 'Market Cap' column: KeyError, the table stays)
SortTable ==
    /\ pc = "sort"
    /\ df_results' \in (IF results = << >> THEN {results} ELSE sort_values(results))
    /\ pc' = "sink"
    /\ UNCHANGED <<calendar, sync, call_in, call_out, dcf_in, dcf_out, tickers, provider, hung, submitted, unit, future, threads, idx,
                   results, sink, starts, fetches, completed>>

\* The steps of the upload that call a collaborator and may raise, in order:
\* json.loads/from_service_account_info/authorize, open or create (and
\* share), get_worksheet and clear, building the rows and update.
UploadSteps == <<"credentials", "open", "clear", "update">>

\* the step comes after worksheet.clear() has emptied the sheet
AfterClear(step) == step = "update"

\* What was persisted, and where: kind is "csv" (sp500_analysis_<time>.csv),
\* "sheet" or "backup" (emergency_backup.csv); cleared tells whether the
\* worksheet was emptied; creds and failed tell what the environment did.
Persisted(kind, cleared, data, creds, failed) ==
    [kind |-> kind, cleared |-> cleared, data |-> data, creds |-> creds, failed |-> failed]

\* A mutant of persist: the handler of the upload only prints the error.
persist_print_only(table, creds, failed) ==
    IF ~creds THEN Persisted("csv", FALSE, table, creds, failed)
    ELSE IF failed = "none" THEN Persisted("sheet", TRUE, table, creds, failed)
    ELSE Persisted("none", AfterClear(failed), << >>, creds, failed)

\* main, lines 109-160: creds tells whether GOOGLE_CREDENTIALS is set and
\* failed names the step of the upload that raises ("none": no step does)
persist(table, creds, failed) ==
    IF ~creds THEN Persisted("csv", FALSE, table, creds, failed)
    ELSE IF failed = "none" THEN Persisted("sheet", TRUE, table, creds, failed)
    ELSE Persisted("backup", AfterClear(failed), table, creds, failed)

\* no GOOGLE_CREDENTIALS: to_csv("sp500_analysis_<time>.csv")
SaveCsv ==
    /\ pc = "sink"
    /\ sink' = persist(df_results, FALSE, "none")
    /\ pc' = "done"
    /\ UNCHANGED <<calendar, sync, call_in, call_out, dcf_in, dcf_out, tickers, provider, hung, submitted, unit, future, threads, idx,
                   results, df_results, starts, fetches, completed>>

\* credentials set and every step of the upload succeeds
UploadSheet ==
    /\ pc = "sink"
    /\ sink' = persist(df_results, TRUE, "none")
    /\ pc' = "done"
    /\ UNCHANGED <<calendar, sync, call_in, call_out, dcf_in, dcf_out, tickers, provider, hung, submitted, unit, future, threads, idx,
                   results, df_results, starts, fetches, completed>>

\* a step of the upload raises, before or after worksheet.clear():
\* except Exception: to_csv("emergency_backup.csv")
UploadFails ==
    /\ pc = "sink"
    /\ \E i \in 1..Len(UploadSteps) : sink' = persist(df_results, TRUE, UploadSteps[i])
    /\ pc' = "done"
    /\ UNCHANGED <<calendar, sync, call_in, call_out, dcf_in, dcf_out, tickers, provider, hung, submitted, unit, future, threads, idx,
                   results, df_results, starts, fetches, completed>>

(***************************************************************************)
(* Numbers of the valuation functions.  A number is a fraction n/d in      *)
(* lowest terms with d > 0; d = 0 stands for a float that is not finite    *)
(* (inf or nan).  A rate x of the inputs stands for x/10.                  *)
(***************************************************************************)
Abs(x) == IF x < 0 THEN -x ELSE x

RECURSIVE GCD(_, _)
GCD(a, b) == IF b = 0 THEN a ELSE GCD(b, a % b)

NotFinite == [n |-> 0, d |-> 0]

IsFinite(x) == x.d # 0

Rat(n, d) ==
    IF d = 0 THEN NotFinite
    ELSE LET g == GCD(Abs(n), Abs(d))
             sgn == IF d < 0 THEN -1 ELSE 1
         IN  [n |-> sgn * (n \div g), d |-> sgn * (d \div g)]

Whole(n) == [n |-> n, d |-> 1]

Rate(x) == Rat(x, 10)

IsZero(x) == IsFinite(x) /\ x.n = 0

RatAdd(x, y) ==
    IF ~IsFinite(x) \/ ~IsFinite(y) THEN NotFinite
    ELSE LET g == GCD(x.d, y.d)
         IN  Rat(x.n * (y.d \div g) + y.n * (x.d \div g), (x.d \div g) * y.d)

RatNeg(x) == IF IsFinite(x) THEN [n |-> -x.n, d |-> x.d] ELSE NotFinite

RatSub(x, y) == RatAdd(x, RatNeg(y))

RatMul(x, y) ==
    IF ~IsFinite(x) \/ ~IsFinite(y) THEN NotFinite
    ELSE LET g1 == GCD(Abs(x.n), y.d)
             g2 == GCD(Abs(y.n), x.d)
         IN  Rat((x.n \div g1) * (y.n \div g2), (x.d \div g2) * (y.d \div g1))

\* x / y where y = 0 gives a float that is not finite (numpy); a caller that
\* divides Python numbers checks for the ZeroDivisionError itself
RatDiv(x, y) ==
    IF ~IsFinite(x) \/ ~IsFinite(y) \/ y.n = 0 THEN NotFinite
    ELSE RatMul(x, Rat(y.d, y.n))

RECURSIVE RatPow(_, _)
RatPow(x, k) == IF k <= 0 THEN Whole(1) ELSE RatMul(RatPow(x, k - 1), x)

\* x < y and x <= y (False when either is nan), over the common denominator
RatLess(x, y) ==
    /\ IsFinite(x) /\ IsFinite(y)
    /\ LET g == GCD(x.d, y.d) IN x.n * (y.d \div g) < y.n * (x.d \div g)

RatLeq(x, y) ==
    /\ IsFinite(x) /\ IsFinite(y)
    /\ LET g == GCD(x.d, y.d) IN x.n * (y.d \div g) <= y.n * (x.d \div g)

RECURSIVE RatSum(_, _)
RatSum(f, k) == IF k <= 0 THEN Whole(0) ELSE RatAdd(RatSum(f, k - 1), f[k])

(***************************************************************************)
(* The DCF functions.  An input is a record                                *)
(*   fcf    : what get_free_cash_flow returns: NoneVal or Some(number)     *)
(*   numpy  : the cash-flow figure is a numpy float (x/0 is inf) and not   *)
(*            a Python number (x/0 raises ZeroDivisionError)               *)
(*   years, growth, discount, terminal : the assumptions (rates in 1/10)   *)
(*   info   : "raise" when the company facts cannot be fetched             *)
(*   cash, debt, shares : a fact of info: [kind |-> "absent"] (no key),    *)
(*            "none" (the key holds None) or "num" with the value v        *)
(* An outcome is a record: kind "value" (with the value), "none" (the      *)
(* no-result sentinel) or "raise"; steps lists what was done, in order;    *)
(* shares is the share count the value was divided by; ev is the total     *)
(* enterprise value, where the call got as far as computing it.            *)
(***************************************************************************)
DashboardYears == 5     \* perform_dcf_analysis: range(1, 6) and ** 5

Fact(kind, v) == [kind |-> kind, v |-> v]

\* dict.get(key, default) of a fact holding a number, or the default
GetOr(fact, default) == IF fact.kind = "absent" THEN Fact("num", default) ELSE fact

Outcome(kind, value, steps, shares) ==
    [kind |-> kind, value |-> value, steps |-> steps, shares |-> shares, ev |-> NotFinite]

\* the outcome of a call that computed the enterprise value ev on its way
WithEnterpriseValue(o, ev) == [o EXCEPT !.ev = ev]

NoResult(steps) == Outcome("none", NotFinite, steps, 0)

Raised(steps) == Outcome("raise", NotFinite, steps, 0)

\* A mutant of ProjectIterative: the first projected year is current_fcf.
RECURSIVE ProjectIterativeLagged(_, _, _)
ProjectIterativeLagged(fcf, g, i) ==
    IF i <= 1 THEN fcf
    ELSE RatMul(ProjectIterativeLagged(fcf, g, i - 1), RatAdd(Whole(1), g))

\* projected_fcf: next_fcf = previous * (1 + g), starting from current_fcf
RECURSIVE ProjectIterative(_, _, _)
ProjectIterative(fcf, g, i) ==
    IF i <= 1 THEN RatMul(fcf, RatAdd(Whole(1), g))
    ELSE RatMul(ProjectIterative(fcf, g, i - 1), RatAdd(Whole(1), g))

\* future_fcf: free_cash_flow * (1 + growth_rate) ** i
ProjectPower(fcf, g, i) == RatMul(fcf, RatPow(RatAdd(Whole(1), g), i))

\* fcf / (1 + discount_rate) ** i
Discount(x, r, i) == RatDiv(x, RatPow(RatAdd(Whole(1), r), i))

\* A mutant of TerminalValue: a perpetuity that does not grow.
TerminalValueFlat(last, r, tg) == RatDiv(last, r)

\* (last * (1 + terminal_growth_rate)) / (discount_rate - terminal_growth_rate)
TerminalValue(last, r, tg) ==
    RatDiv(RatMul(last, RatAdd(Whole(1), tg)), RatSub(r, tg))

\* discount_rate <= terminal_growth_rate
DcfRateCheckFails(r, tg) == RatLeq(r, tg)

\* discounted_cash_flow.py: calculate_dcf_value
calculate_dcf_value(in) ==
    LET years == in.years
        g == Rate(in.growth)
        r == Rate(in.discount)
        tg == Rate(in.terminal)
        s1 == <<"fetch_fcf">>
        s2 == s1 \o <<"project", "present_value">>
        s3 == s2 \o <<"rate_check">>
        s4 == s3 \o <<"terminal_value">>
        s5 == s4 \o <<"fetch_info">>
        s6 == s5 \o <<"per_share">>
    IN  IF IsNone(in.fcf) THEN NoResult(s1)
        ELSE LET current_fcf == Whole(Get(in.fcf))
                 projected_fcf == [i \in 1..years |-> ProjectIterative(current_fcf, g, i)]
                 pv_fcf == [i \in 1..years |-> Discount(projected_fcf[i], r, i)]
                 pv_of_explicit_fcf == RatSum(pv_fcf, years)
                 zero_div == IsZero(RatAdd(Whole(1), r)) /\ ~in.numpy
             IN  IF years >= 1 /\ zero_div THEN Raised(s2)        \* ZeroDivisionError
                 ELSE IF years <= 0 THEN Raised(s2)               \* projected_fcf[-1]
                 ELSE IF DcfRateCheckFails(r, tg) THEN NoResult(s3)
                 ELSE LET terminal_value == TerminalValue(projected_fcf[years], r, tg)
                          pv_terminal_value == Discount(terminal_value, r, years)
                          total_enterprise_value ==
                              RatAdd(pv_of_explicit_fcf, pv_terminal_value)
                          cash == GetOr(in.cash, 0)
                          debt == GetOr(in.debt, 0)
                          shares_outstanding == in.shares
                      IN  WithEnterpriseValue(
                            IF in.info = "raise" THEN NoResult(s5)
                            ELSE IF shares_outstanding.kind # "num" \/ shares_outstanding.v = 0
                            THEN NoResult(s5)
                            ELSE IF cash.kind # "num" \/ debt.kind # "num"
                            THEN NoResult(s6)                    \* TypeError, caught
                            ELSE Outcome("value",
                                     RatDiv(RatSub(RatAdd(total_enterprise_value,
                                                          Whole(cash.v)), Whole(debt.v)),
                                            Whole(shares_outstanding.v)),
                                     s6, shares_outstanding.v),
                            total_enterprise_value)

\* stock_dashboard.py: perform_dcf_analysis
perform_dcf_analysis(in) ==
    LET g == Rate(in.growth)
        r == Rate(in.discount)
        tg == Rate(in.terminal)
        s1 == <<"rate_check">>
        s2 == s1 \o <<"fetch_fcf">>
        s3 == s2 \o <<"project", "terminal_value", "present_value">>
        s4 == s3 \o <<"fetch_info">>
        s5 == s4 \o <<"per_share">>
    IN  IF DcfRateCheckFails(r, tg) THEN NoResult(s1)
        ELSE IF IsNone(in.fcf) THEN NoResult(s2)
        ELSE LET free_cash_flow == Whole(Get(in.fcf))
                 future_fcf == [i \in 1..DashboardYears |->
                                   ProjectPower(free_cash_flow, g, i)]
                 terminal_value == TerminalValue(future_fcf[DashboardYears], r, tg)
                 discounted_fcf == [i \in 1..DashboardYears |->
                                       Discount(future_fcf[i], r, i)]
                 discounted_terminal_value == Discount(terminal_value, r, DashboardYears)
                 enterprise_value ==
                     RatAdd(RatSum(discounted_fcf, DashboardYears), discounted_terminal_value)
                 total_debt == GetOr(in.debt, 0)
                 cash_and_equivalents == GetOr(in.cash, 0)
                 shares_outstanding == GetOr(in.shares, 1)
             IN  IF IsZero(RatAdd(Whole(1), r)) /\ ~in.numpy
                 THEN NoResult(s3)                               \* ZeroDivisionError, caught
                 ELSE WithEnterpriseValue(
                        IF in.info = "raise" THEN NoResult(s4)
                        ELSE IF shares_outstanding.kind = "num" /\ shares_outstanding.v = 0
                        THEN NoResult(s4)
                        ELSE IF total_debt.kind # "num" \/ cash_and_equivalents.kind # "num"
                                \/ shares_outstanding.kind # "num"
                        THEN NoResult(s5)                        \* TypeError, caught
                        ELSE Outcome("value",
                                 RatDiv(RatAdd(RatSub(enterprise_value, Whole(total_debt.v)),
                                               Whole(cash_and_equivalents.v)),
                                        Whole(shares_outstanding.v)),
                                 s5, shares_outstanding.v),
                        enterprise_value)

\* the script calls calculate_dcf_value with its assumptions
RunCalculateDcf ==
    /\ IsNone(dcf_out.calc)
    /\ dcf_out' = [dcf_out EXCEPT !.calc = Some(calculate_dcf_value(dcf_in))]
    /\ UNCHANGED <<dcf_in, call_in, call_out, scanVars, calendar, sync>>

\* the dashboard calls perform_dcf_analysis with its assumptions
RunPerformDcf ==
    /\ IsNone(dcf_out.perf)
    /\ dcf_out' = [dcf_out EXCEPT !.perf = Some(perform_dcf_analysis(dcf_in))]
    /\ UNCHANGED <<dcf_in, call_in, call_out, scanVars, calendar, sync>>

\* the inputs with the terminal growth rate raised to call_in
RaisedInput == [dcf_in EXCEPT !.terminal = Get(call_in)]

\* the script is run again with a higher terminal growth rate
RunCalculateDcfRaised ==
    /\ IsNone(call_out.calc)
    /\ call_out' = [call_out EXCEPT !.calc = Some(calculate_dcf_value(RaisedInput))]
    /\ UNCHANGED <<dcf_in, dcf_out, call_in, scanVars, calendar, sync>>

\* the dashboard's terminal growth input is raised
RunPerformDcfRaised ==
    /\ IsNone(call_out.perf)
    /\ call_out' = [call_out EXCEPT !.perf = Some(perform_dcf_analysis(RaisedInput))]
    /\ UNCHANGED <<dcf_in, dcf_out, call_in, scanVars, calendar, sync>>

(***************************************************************************)
(* The dividend discount model.  An input is a record                      *)
(*   dividends : what stock.dividends gives: [kind |-> "raise"] (the       *)
(*               provider call fails), "empty" (no dividend history) or    *)
(*               "some" with the latest dividend last                      *)
(*   growth, required : the two rates, in 1/10                             *)
(* An outcome has kind "value", "none" or "raise"; steps lists what the    *)
(* call did, in order ("rate_error" is the message of the rate check).     *)
(***************************************************************************)
DdmOutcome(kind, value, steps) == [kind |-> kind, value |-> value, steps |-> steps]

\* A mutant of GordonGrowth: the latest dividend is not grown by one period.
GordonGrowthUngrown(d, g, r) == RatDiv(d, RatSub(r, g))

\* latest_dividend * (1 + growth_rate) / (required_return - growth_rate)
GordonGrowth(d, g, r) == RatDiv(RatMul(d, RatAdd(Whole(1), g)), RatSub(r, g))

\* A mutant of ddm_body: the rates are checked before the dividend history.
ddm_body_rates_first(in) ==
    IF in.dividends.kind = "raise" THEN DdmOutcome("raise", NotFinite, <<"dividends">>)
    ELSE IF RatLeq(Rate(in.required), Rate(in.growth))
    THEN DdmOutcome("none", NotFinite, <<"dividends", "rate_error">>)
    ELSE IF in.dividends.kind = "empty"
    THEN DdmOutcome("none", NotFinite, <<"dividends", "empty">>)
    ELSE DdmOutcome("value",
                    GordonGrowth(Whole(in.dividends.last), Rate(in.growth), Rate(in.required)),
                    <<"dividends", "latest", "formula">>)

\* the statements inside the try block, the same in both functions
ddm_body(in) ==
    IF in.dividends.kind = "raise" THEN DdmOutcome("raise", NotFinite, <<"dividends">>)
    ELSE IF in.dividends.kind = "empty"
    THEN DdmOutcome("none", NotFinite, <<"dividends", "empty">>)
    ELSE IF RatLeq(Rate(in.required), Rate(in.growth))
    THEN DdmOutcome("none", NotFinite, <<"dividends", "latest", "rate_error">>)
    ELSE DdmOutcome("value",
                    GordonGrowth(Whole(in.dividends.last), Rate(in.growth), Rate(in.required)),
                    <<"dividends", "latest", "formula">>)

\* except Exception: return None
DdmCatch(o) == IF o.kind = "raise" THEN DdmOutcome("none", NotFinite, o.steps) ELSE o

\* intrinsic_value.py: calculate_intrinsic_value
calculate_intrinsic_value(in) == DdmCatch(ddm_body(in))

\* stock_dashboard.py: calculate_ddm_value
calculate_ddm_value(in) == DdmCatch(ddm_body(in))

\* the script calls calculate_intrinsic_value
RunIntrinsicValue ==
    /\ IsNone(call_out.intrinsic)
    /\ call_out' = [call_out EXCEPT
                       !.intrinsic = Some(calculate_intrinsic_value(Get(call_in)))]
    /\ UNCHANGED <<dcf_in, dcf_out, call_in, scanVars, calendar, sync>>

\* the dashboard calls calculate_ddm_value
RunDdmValue ==
    /\ IsNone(call_out.dashboard)
    /\ call_out' = [call_out EXCEPT
                       !.dashboard = Some(calculate_ddm_value(Get(call_in)))]
    /\ UNCHANGED <<dcf_in, dcf_out, call_in, scanVars, calendar, sync>>

(***************************************************************************)
(* calculate_rsi.  The quotient gain / loss is a float division of pandas  *)
(* Series: a divisor of zero gives an infinity or nan and raises nothing.  *)
(* A float is a fraction, or [n |-> 1, d |-> 0] for inf, [n |-> -1,        *)
(* d |-> 0] for -inf, NotFinite for nan.  The zero a rolling mean of zeros *)
(* gives may be 0.0 or -0.0 (the terms of loss are -0.0), which decides    *)
(* the sign of the infinity: zero_sign is that sign.                       *)
(***************************************************************************)
RsiWindow == 14      \* calculate_rsi(data, window=14)

PosInf == [n |-> 1, d |-> 0]

NegInf == [n |-> -1, d |-> 0]

IsInf(x) == x.d = 0 /\ x.n # 0

IsNaN(x) == x.d = 0 /\ x.n = 0

Sign(k) == IF k > 0 THEN 1 ELSE IF k < 0 THEN -1 ELSE 0

\* A mutant of FloatDiv: a divisor of zero gives zero.
FloatDivZeroGuard(x, y, zero_sign) ==
    IF IsNaN(x) \/ IsNaN(y) THEN NotFinite
    ELSE IF IsInf(x) /\ IsInf(y) THEN NotFinite
    ELSE IF IsInf(y) THEN Whole(0)
    ELSE IF IsInf(x) THEN [n |-> x.n * (IF y.n = 0 THEN zero_sign ELSE Sign(y.n)), d |-> 0]
    ELSE IF y.n = 0 THEN Whole(0)
    ELSE RatDiv(x, y)

\* x / y
FloatDiv(x, y, zero_sign) ==
    IF IsNaN(x) \/ IsNaN(y) THEN NotFinite
    ELSE IF IsInf(x) /\ IsInf(y) THEN NotFinite
    ELSE IF IsInf(y) THEN Whole(0)
    ELSE IF IsInf(x) THEN [n |-> x.n * (IF y.n = 0 THEN zero_sign ELSE Sign(y.n)), d |-> 0]
    ELSE IF y.n = 0 THEN [n |-> Sign(x.n) * zero_sign, d |-> 0]
    ELSE RatDiv(x, y)

\* x + y
FloatAdd(x, y) ==
    IF IsNaN(x) \/ IsNaN(y) THEN NotFinite
    ELSE IF IsInf(x) /\ IsInf(y) THEN (IF x.n = y.n THEN x ELSE NotFinite)
    ELSE IF IsInf(x) THEN x
    ELSE IF IsInf(y) THEN y
    ELSE RatAdd(x, y)

\* x - y
FloatSub(x, y) == FloatAdd(x, [n |-> -y.n, d |-> y.d])

\* delta = data['Close'].diff(): nan on the first sample
Delta(close, t) == IF t <= 1 THEN NotFinite ELSE Whole(close[t] - close[t - 1])

\* delta.where(delta > 0, 0): nan > 0 is False
GainTerm(close, t) ==
    LET delta == Delta(close, t) IN IF IsFinite(delta) /\ delta.n > 0 THEN delta.n ELSE 0

\* -delta.where(delta < 0, 0)
LossTerm(close, t) ==
    LET delta == Delta(close, t) IN IF IsFinite(delta) /\ delta.n < 0 THEN -delta.n ELSE 0

\* series.rolling(window=window).mean() at t: nan on the first window - 1
RollingMean(series, window, t) ==
    IF t < window \/ t < 1 \/ t > Len(series) THEN NotFinite
    ELSE Rat(SumRange(series, t - window + 1, t), window)

\* stock_dashboard.py: calculate_rsi, the value at sample t
calculate_rsi(close, window, zero_sign, t) ==
    LET gain == RollingMean([u \in 1..Len(close) |-> GainTerm(close, u)], window, t)
        loss == RollingMean([u \in 1..Len(close) |-> LossTerm(close, u)], window, t)
        rs == FloatDiv(gain, loss, zero_sign)
    IN  FloatSub(Whole(100), FloatDiv(Whole(100), FloatAdd(Whole(1), rs), zero_sign))

\* hist['RSI'] = calculate_rsi(hist); current_rsi = hist['RSI'].iloc[-1]
RunRsi ==
    /\ IsNone(call_out)
    /\ LET in == Get(call_in)
       IN  \E zero_sign \in {1, -1} :
               call_out' = Some(calculate_rsi(in.close, in.window, zero_sign, Len(in.close)))
    /\ UNCHANGED <<dcf_in, dcf_out, call_in, scanVars, calendar, sync>>

(***************************************************************************)
(* calculate_fibonacci_levels and the nearest level.  data is a sequence   *)
(* of bars [High, Low]; the levels are the items of the dict, in the order *)
(* of their insertion, as records [name, value].                           *)
(***************************************************************************)
RatAbs(x) == IF IsFinite(x) THEN [n |-> Abs(x.n), d |-> x.d] ELSE NotFinite

\* stock_dashboard.py: calculate_fibonacci_levels
calculate_fibonacci_levels(data) ==
    LET max_price == SetMax({data[i].High : i \in 1..Len(data)})
        min_price == -SetMax({-data[i].Low : i \in 1..Len(data)})
        diff == Whole(max_price - min_price)
        level(ratio) == RatSub(Whole(max_price), RatMul(Rat(ratio, 1000), diff))
    IN  << [name |-> "0% (High)",  value |-> Whole(max_price)],
           [name |-> "23.6%",      value |-> level(236)],
           [name |-> "38.2%",      value |-> level(382)],
           [name |-> "50%",        value |-> level(500)],
           [name |-> "61.8%",      value |-> level(618)],
           [name |-> "100% (Low)", value |-> Whole(min_price)] >>

\* key=lambda x: abs(x[1] - current_price)
FibKey(item, current_price) == RatAbs(RatSub(item.value, current_price))

\* A mutant of Closer: an item as near as the best so far replaces it.
CloserOrEqual(a, b) == RatLeq(a, b)

\* min keeps the item it holds unless the next one has a smaller key
Closer(a, b) == RatLess(a, b)

\* min(items, key=...): the items are gone through in order
RECURSIVE MinFrom(_, _, _, _)
MinFrom(items, current_price, i, best) ==
    IF i > Len(items) THEN best
    ELSE IF Closer(FibKey(items[i], current_price), FibKey(items[best], current_price))
    THEN MinFrom(items, current_price, i + 1, i)
    ELSE MinFrom(items, current_price, i + 1, best)

\* closest_level = min(fib_levels.items(), key=...), as a position in the dict
closest_level(fib_levels, current_price) == MinFrom(fib_levels, current_price, 2, 1)

\* fib_levels = calculate_fibonacci_levels(hist[-252:]); closest_level = min(...)
RunFibonacci ==
    /\ IsNone(call_out)
    /\ LET in == Get(call_in)
           fib_levels == calculate_fibonacci_levels(in.data)
       IN  call_out' = Some([levels |-> fib_levels,
                             closest |-> closest_level(fib_levels, in.price)])
    /\ UNCHANGED <<dcf_in, dcf_out, call_in, scanVars, calendar, sync>>

\* calculate_golden_cross is called on day n, with the history up to day n
RunGoldenCross ==
    /\ IsNone(call_out)
    /\ LET in == Get(call_in)
       IN  \E n \in 0..(IF IsNone(in.df) THEN 0 ELSE Len(Get(in.df))) :
               call_out' = Some([n |-> n,
                                 result |-> calculate_golden_cross(
                                     IF IsNone(in.df) THEN NoneVal
                                     ELSE Some(SubSeq(Get(in.df), 1, n)),
                                     in.short, in.long)])
    /\ UNCHANGED <<dcf_in, dcf_out, call_in, scanVars, calendar, sync>>

(***************************************************************************)
(* The scans.  Spec: every short ticker list with every provider answer.   *)
(* SpecPool: a list longer than the pool is wide, one unit possibly hung.  *)
(***************************************************************************)
Ascending(n) == [k \in 1..n |-> k]

Descending(n) == [k \in 1..n |-> n + 1 - k]

TickerLists ==
    {Ascending(n) : n \in 0..MaxTickers} \cup {Descending(n) : n \in 0..MaxTickers}

Answers ==
    { [info |-> "raise",  mcap |-> 0, daily |-> "falling",      hourly |-> "short"],
      [info |-> "num",    mcap |-> 2, daily |-> "flat_then_up", hourly |-> "flat_then_up"],
      [info |-> "num",    mcap |-> 1, daily |-> "falling",      hourly |-> "flat_then_up"],
      [info |-> "absent", mcap |-> 0, daily |-> "short",        hourly |-> "short"],
      [info |-> "none",   mcap |-> 0, daily |-> "rising",       hourly |-> "raise"] }

PoolAnswer(k) ==
    [info |-> "num", mcap |-> k, daily |-> "flat_then_up", hourly |-> "short"]

ScanInit ==
    /\ pc = "start"
    /\ submitted = 0
    /\ unit = [k \in 1..N |-> "none"]
    /\ future = [k \in 1..N |-> [kind |-> "pending", value |-> NoneVal]]
    /\ threads = 0
    /\ idx = 1
    /\ results = << >>
    /\ df_results = << >>
    /\ sink = Persisted("none", FALSE, << >>, FALSE, "none")
    /\ starts = [k \in 1..N |-> 0]
    /\ fetches = [k \in 1..N |-> << >>]
    /\ completed = << >>

\* no valuation is under way
DcfIdle ==
    /\ dcf_in = NoneVal
    /\ dcf_out = NoneVal
    /\ call_in = NoneVal
    /\ call_out = NoneVal

Init ==
    /\ tickers \in TickerLists
    /\ provider \in [1..N -> Answers]
    /\ hung = {}
    /\ ScanInit
    /\ NoSync
    /\ DcfIdle

InitPool ==
    /\ tickers = Ascending(PoolTickers)
    /\ provider = [k \in 1..N |-> PoolAnswer(k)]
    /\ hung \in {{}} \cup {{h} : h \in {1, N}}
    /\ ScanInit
    /\ NoSync
    /\ DcfIdle

Next ==
    \/ FetchTickers
    \/ Submit
    \/ \E k \in 1..N : Start(k)
    \/ \E k \in 1..N : Finish(k)
    \/ Collect
    \/ Shutdown
    \/ SortTable
    \/ SaveCsv
    \/ UploadSheet
    \/ UploadFails

NextPool ==
    \/ FetchTickers
    \/ Submit
    \/ \E k \in 1..N : Start(k)
    \/ \E k \in 1..N : FinishUnit(k) /\ UNCHANGED completed
    \/ Collect
    \/ Shutdown
    \/ SortTable
    \/ SaveCsv
    \/ UploadSheet
    \/ UploadFails

Spec == Init /\ [][Next]_vars

(***************************************************************************)
(* The valuations.  SpecDCF: both DCF functions on every input of the      *)
(* bounded sets below.                                                     *)
(***************************************************************************)
MaxYears == 2     \* largest years_to_project

FcfValues == {NoneVal, Some(10), Some(-4)}

RateValues == {-10, 0, 1, 2}       \* -1.0, 0.0, 0.1, 0.2

Facts(values) == {Fact("absent", 0), Fact("none", 0)} \cup {Fact("num", v) : v \in values}

DcfInputs ==
    [fcf : FcfValues, numpy : BOOLEAN, years : 0..MaxYears,
     growth : {0, 1}, discount : RateValues, terminal : {0, 1},
     info : {"ok"}, cash : Facts({3}), debt : Facts({5}), shares : Facts({0, 2})]
    \cup
    [fcf : FcfValues, numpy : BOOLEAN, years : 0..MaxYears,
     growth : {0, 1}, discount : RateValues, terminal : {0, 1},
     info : {"raise"}, cash : {Fact("absent", 0)}, debt : {Fact("absent", 0)},
     shares : {Fact("absent", 0)}]

InitDCF ==
    /\ dcf_in \in DcfInputs
    /\ dcf_out = [calc |-> NoneVal, perf |-> NoneVal]
    /\ call_in = NoneVal
    /\ call_out = NoneVal
    /\ tickers = << >>
    /\ provider = << >>
    /\ hung = {}
    /\ ScanInit
    /\ NoSync

NextDCF ==
    \/ RunCalculateDcf
    \/ RunPerformDcf

SpecDCF == InitDCF /\ [][NextDCF]_vars

SpecPool == InitPool /\ [][NextPool]_vars

(***************************************************************************)
(* SpecOne: the scan of a single ticker, with everything the provider may  *)
(* answer for it.                                                          *)
(***************************************************************************)
AllAnswers ==
    [info : {"raise", "num", "absent", "none"}, mcap : {1},
     daily : HistoryNames \cup {"raise"}, hourly : HistoryNames \cup {"raise"}]

InitOne ==
    /\ tickers = Ascending(1)
    /\ provider \in [1..N -> AllAnswers]
    /\ hung = {}
    /\ ScanInit
    /\ NoSync
    /\ DcfIdle

SpecOne == InitOne /\ [][Next]_vars

\* no scan is under way
ScanIdle ==
    /\ tickers = << >>
    /\ provider = << >>
    /\ hung = {}
    /\ ScanInit

(***************************************************************************)
(* SpecTerminal: both DCF functions on inputs that differ in the terminal  *)
(* growth rate only.                                                       *)
(***************************************************************************)
TerminalInputs ==
    [fcf : {Some(10), Some(0), Some(-4)}, numpy : BOOLEAN, years : 1..MaxYears,
     growth : {0, 1}, discount : {1, 2, 3}, terminal : {0, 1},
     info : {"ok"}, cash : {Fact("num", 3)}, debt : {Fact("num", 5)},
     shares : Facts({0, 2})]

InitTerminal ==
    /\ dcf_in \in TerminalInputs
    /\ call_in \in {Some(1), Some(2)}
    /\ dcf_out = [calc |-> NoneVal, perf |-> NoneVal]
    /\ call_out = [calc |-> NoneVal, perf |-> NoneVal]
    /\ ScanIdle
    /\ NoSync

NextTerminal ==
    \/ RunCalculateDcf
    \/ RunPerformDcf
    \/ RunCalculateDcfRaised
    \/ RunPerformDcfRaised

SpecTerminal == InitTerminal /\ [][NextTerminal]_vars

(***************************************************************************)
(* SpecHorizon: both DCF functions on the same inputs, the script with     *)
(* every horizon up to MaxYears and with the five years of the dashboard.  *)
(***************************************************************************)
HorizonInputs ==
    [fcf : {Some(10), Some(-4)}, numpy : BOOLEAN,
     years : (0..MaxYears) \cup {DashboardYears},
     growth : {-1, 0, 1}, discount : {1, 2, 3}, terminal : {0, 1, 2},
     info : {"ok", "raise"}, cash : {Fact("num", 3)}, debt : {Fact("num", 5)},
     shares : {Fact("absent", 0), Fact("num", 2)}]

InitHorizon ==
    /\ dcf_in \in HorizonInputs
    /\ dcf_out = [calc |-> NoneVal, perf |-> NoneVal]
    /\ call_in = NoneVal
    /\ call_out = NoneVal
    /\ ScanIdle
    /\ NoSync

NextHorizon ==
    \/ RunCalculateDcf
    \/ RunPerformDcf

SpecHorizon == InitHorizon /\ [][NextHorizon]_vars

(***************************************************************************)
(* SpecDDM: both DDM functions on every input of the sets below.           *)
(***************************************************************************)
Dividends ==
    {[kind |-> "raise", last |-> 0], [kind |-> "empty", last |-> 0]}
    \cup {[kind |-> "some", last |-> d] : d \in {0, 1, 3}}

DdmInputs == [dividends : Dividends, growth : {-1, 0, 1, 2}, required : {0, 1, 2, 3}]

\* no DCF evaluation is under way
NoDcf ==
    /\ dcf_in = NoneVal
    /\ dcf_out = NoneVal

InitDDM ==
    /\ call_in \in {Some(in) : in \in DdmInputs}
    /\ call_out = [intrinsic |-> NoneVal, dashboard |-> NoneVal]
    /\ NoDcf
    /\ ScanIdle
    /\ NoSync

NextDDM ==
    \/ RunIntrinsicValue
    \/ RunDdmValue

SpecDDM == InitDDM /\ [][NextDDM]_vars

(***************************************************************************)
(* SpecCross: calculate_golden_cross on every series of closes of the      *)
(* bounded set below, with small windows.                                  *)
(***************************************************************************)
MaxLen == 6      \* longest series of closes

Closes == {1, 2, 3}

RECURSIVE SeriesUpTo(_)
SeriesUpTo(n) ==
    IF n = 0 THEN {<< >>}
    ELSE LET shorter == SeriesUpTo(n - 1)
         IN  shorter \cup {Append(s, c) : s \in {x \in shorter : Len(x) = n - 1}, c \in Closes}

\* (short_window, long_window)
Windows == {<<1, 2>>, <<2, 3>>}

CrossInputs ==
    {[df |-> df, short |-> w[1], long |-> w[2]] :
        df \in {NoneVal} \cup {Some(s) : s \in SeriesUpTo(MaxLen)}, w \in Windows}

InitCross ==
    /\ call_in \in {Some(in) : in \in CrossInputs}
    /\ call_out = NoneVal
    /\ NoDcf
    /\ ScanIdle
    /\ NoSync

NextCross == RunGoldenCross

SpecCross == InitCross /\ [][NextCross]_vars

(***************************************************************************)
(* SpecRsi: calculate_rsi on every non-empty series of the bounded set     *)
(* with small windows, and on a rising and a falling series with the       *)
(* default window.                                                         *)
(***************************************************************************)
RsiInputs ==
    {[close |-> s, window |-> w] : s \in SeriesUpTo(MaxLen) \ {<< >>}, w \in {2, 3}}
    \cup {[close |-> s, window |-> RsiWindow] :
             s \in {Ascending(RsiWindow), Ascending(RsiWindow + 1),
                    Descending(RsiWindow), Descending(RsiWindow + 1)}}

InitRsi ==
    /\ call_in \in {Some(in) : in \in RsiInputs}
    /\ call_out = NoneVal
    /\ NoDcf
    /\ ScanIdle
    /\ NoSync

NextRsi == RunRsi

SpecRsi == InitRsi /\ [][NextRsi]_vars

(***************************************************************************)
(* SpecFib: the Fibonacci levels of a few windows of bars and the level    *)
(* nearest to every price, in steps of 1/10, up to MaxPrice.               *)
(***************************************************************************)
MaxPrice == 110     \* highest current price

Bar(high, low) == [High |-> high, Low |-> low]

FibWindows ==
    { <<Bar(100, 0)>>,
      <<Bar(100, 50), Bar(60, 0)>>,
      <<Bar(7, 7)>>,
      <<Bar(30, 10), Bar(20, 5), Bar(25, 15)>> }

FibInputs == [data : FibWindows, price : {Rat(p, 10) : p \in 0..(10 * MaxPrice)}]

InitFib ==
    /\ call_in \in {Some(in) : in \in FibInputs}
    /\ call_out = NoneVal
    /\ NoDcf
    /\ ScanIdle
    /\ NoSync

NextFib == RunFibonacci

SpecFib == InitFib /\ [][NextFib]_vars

\* Every worker thread and the main thread keep running: a step that can be
\* taken is eventually taken.  (No unit is started or finished twice, so this
\* is all that fair scheduling of the threads adds.)
FairSpecPool == SpecPool /\ WF_vars(NextPool)

(***************************************************************************)
(* Properties of the scanner.                                              *)
(***************************************************************************)
\* the fetch or the analysis of list position k raises
Raises(k) == process_ticker_body(tickers[k], provider[k]).kind = "raise"

\* the positions of the rows of table tbl that are about ticker t
RowsOf(tbl, t) == {n \in 1..Len(tbl) : tbl[n].Ticker = t}

\* the list position of a ticker (the lists hold no ticker twice)
PositionOf(t) == CHOOSE k \in 1..N : tickers[k] = t

\* the place of list position k in the completion order
CompletionRank(k) == CHOOSE n \in 1..Len(completed) : completed[n] = k

OneRowPerSurvivor(tbl) ==
    /\ \A k \in 1..N :
          Cardinality(RowsOf(tbl, tickers[k])) = IF Raises(k) THEN 0 ELSE 1
    /\ Len(tbl) = Cardinality({k \in 1..N : ~Raises(k)})

\* C1: failure isolation.  Whatever subset of the tickers raises in its
\* fetch or its analysis, main never raises because of them, and the list of
\* results and the result table hold exactly one row for every ticker whose
\* processing did not raise and none for a ticker that raised.
C1_FailureIsolation ==
    /\ pc # "raised"
    /\ (pc \in {"shutdown", "sort", "sink", "done"} /\ N > 0) => OneRowPerSurvivor(results)
    /\ (pc \in {"sink", "done"} /\ N > 0) => OneRowPerSurvivor(df_results)

\* C1 witness: a finished scan of three tickers of which exactly one raised,
\* with a table of two rows.
C1_Witness ==
    /\ pc = "done"
    /\ N = 3
    /\ Cardinality({k \in 1..N : Raises(k)}) = 1
    /\ Len(df_results) = 2
    /\ Len(sink.data) = 2

\* C2 as claimed: before the sort, the rows are in the completion order of
\* the pool: the row of a unit that completed earlier comes before the row of
\* a unit that completed later.
C2_CompletionOrder ==
    pc = "sort" =>
        \A a, b \in 1..Len(results) :
            CompletionRank(PositionOf(results[a].Ticker))
                < CompletionRank(PositionOf(results[b].Ticker)) => a < b

\* C2 as amended: the rows collected are always in the order of the ticker
\* list, whatever the order in which the units completed.
C2_InputOrder ==
    \A a, b \in 1..Len(results) :
        a < b => PositionOf(results[a].Ticker) < PositionOf(results[b].Ticker)

\* C2 witness: before the sort, two rows whose units completed in the
\* opposite order of their places in the ticker list.
C2_Witness ==
    /\ pc = "sort"
    /\ \E a, b \in 1..Len(results) :
          /\ a < b
          /\ CompletionRank(PositionOf(results[b].Ticker))
                < CompletionRank(PositionOf(results[a].Ticker))

\* C3: blocking join.  The table is built, sorted and handed to a sink only
\* after every submitted unit has finished or failed, and with the row of
\* every unit that returned one: no partial result set is sorted or written.
C3_BlockingJoin ==
    (pc \in {"sort", "sink", "done"} /\ N > 0) =>
        /\ submitted = N
        /\ \A k \in 1..N : unit[k] = "done"
        /\ Len(results) = Cardinality({k \in 1..N : ~IsNone(future[k].value)})
        /\ sink.kind # "none" => Len(sink.data) = Len(results)

\* C3 witness: a table of at least two rows written to the spreadsheet.
C3_Witness ==
    /\ pc = "done"
    /\ sink.kind = "sheet"
    /\ N = 3
    /\ Len(sink.data) >= 2

\* C4: at most 10 per-ticker units execute at the same time, however many
\* tickers there are.
C4_PoolWidth == Cardinality(Running) <= MaxWorkers

\* C4 witness: ten units are running while another ticker waits on the queue.
C4_Witness == Cardinality(Running) = MaxWorkers /\ Queued # {}

\* C5: a unit that never returns stalls only its own worker.  Under fair
\* scheduling every other ticker is eventually processed to completion, and
\* the scan does not get to its table while the hung unit has not finished.
C5_HungUnit ==
    /\ <>(\A k \in 1..N : k \notin hung => unit[k] = "done")
    /\ [](hung # {} => pc \notin {"shutdown", "sort", "sink", "done"})

\* C5 witness: more tickers than workers, one unit hung and running, every
\* other unit done, main still waiting in its loop.
C5_Witness ==
    /\ N > MaxWorkers
    /\ hung # {}
    /\ \A k \in 1..N : IF k \in hung THEN unit[k] = "running" ELSE unit[k] = "done"
    /\ pc = "collect"

\* C6: no retry.  process_ticker is started at most once for a list entry,
\* exactly once by the end of the scan, and a unit makes each of its provider
\* calls once: a unit that failed is never started or fetched again, and each
\* entry of the list is submitted once.
C6_NoRetry ==
    /\ \A k \in 1..N :
          /\ starts[k] <= 1
          /\ unit[k] \in {"running", "done"} => starts[k] = 1
          /\ \A m, n \in 1..Len(fetches[k]) : fetches[k][m] = fetches[k][n] => m = n
    /\ (pc = "done" /\ N > 0) => \A k \in 1..N : starts[k] = 1
    /\ submitted <= N
    /\ \A k \in 1..N : k <= submitted <=> unit[k] # "none"

\* C6 witness: a finished scan in which a unit failed and was started once.
C6_Witness ==
    /\ pc = "done"
    /\ \E k \in 1..N : Raises(k) /\ IsNone(future[k].value) /\ starts[k] = 1

\* the table is in descending order of market cap, the rows without a
\* numeric market cap after all the others
MarketCapDescending(tbl) ==
    \A a, b \in 1..Len(tbl) :
        a < b =>
            /\ IsNumeric(tbl[b]) => IsNumeric(tbl[a])
            /\ (IsNumeric(tbl[a]) /\ IsNumeric(tbl[b])) => Numeric(tbl[a]) >= Numeric(tbl[b])

\* C7 as claimed: after the scan the table is in descending order of market
\* cap, rows without a numeric market cap last, and those rows are in ticker
\* order among themselves.
C7_TickerFallback ==
    pc \in {"sink", "done"} =>
        /\ MarketCapDescending(df_results)
        /\ \A a, b \in 1..Len(df_results) :
              (a < b /\ ~IsNumeric(df_results[a]) /\ ~IsNumeric(df_results[b]))
                  => df_results[a].Ticker <= df_results[b].Ticker

\* C7 as amended: after the scan the table is in descending order of market
\* cap, rows without a numeric market cap last, and those rows keep among
\* themselves the order of the ticker list.
C7_MarketCapOrder ==
    pc \in {"sink", "done"} =>
        /\ MarketCapDescending(df_results)
        /\ \A a, b \in 1..Len(df_results) :
              (a < b /\ ~IsNumeric(df_results[a]) /\ ~IsNumeric(df_results[b]))
                  => PositionOf(df_results[a].Ticker) < PositionOf(df_results[b].Ticker)

\* C7 witness: a sorted table that differs from the rows as collected, with
\* a numeric row and two rows without a numeric market cap.
C7_Witness ==
    /\ pc = "done"
    /\ df_results # results
    /\ Len(df_results) = 3
    /\ IsNumeric(df_results[1])
    /\ ~IsNumeric(df_results[2])
    /\ ~IsNumeric(df_results[3])

(***************************************************************************)
(* Properties of the DCF functions.                                        *)
(***************************************************************************)
\* the outcomes of the DCF functions that have been computed
DcfOutcomes ==
    {Get(o) : o \in {x \in {dcf_out.calc, dcf_out.perf} : ~IsNone(x)}}

\* C8: no valuation function lets a fault escape: on every input,
\* years_to_project = 0 and discount_rate = -1 included, calculate_dcf_value
\* and perform_dcf_analysis return a value or the no-result sentinel and
\* never raise.
C8_NoFaultEscapes == \A o \in DcfOutcomes : o.kind # "raise"

\* C9: whenever discount_rate <= terminal_growth the DCF operation ends with
\* no result and attempts no computation: the rate check is its only step.
C9_RateCheckFirst ==
    DcfRateCheckFails(Rate(dcf_in.discount), Rate(dcf_in.terminal)) =>
        \A o \in DcfOutcomes : o.kind = "none" /\ o.steps = <<"rate_check">>

SharesUnknownOrZero ==
    dcf_in.info = "raise" \/ dcf_in.shares.kind # "num" \/ dcf_in.shares.v = 0

\* C10: whenever shares outstanding is zero or unknown (absent or None) the
\* DCF operation fails: it never returns an intrinsic value, computed with a
\* share count put in the place of the missing one.
C10_MissingShareCount ==
    SharesUnknownOrZero => \A o \in DcfOutcomes : o.kind # "value"

(***************************************************************************)
(* Terminal growth.                                                        *)
(***************************************************************************)
\* discount_rate > raised terminal growth > terminal growth, share count
\* known and not zero, and all four evaluations made
TerminalRaised ==
    /\ dcf_in.terminal < Get(call_in)
    /\ Get(call_in) < dcf_in.discount
    /\ dcf_in.shares.kind = "num"
    /\ dcf_in.shares.v # 0
    /\ \A f \in {"calc", "perf"} : ~IsNone(dcf_out[f]) /\ ~IsNone(call_out[f])

\* both functions return a strictly higher value for the raised rate
StrictlyHigher ==
    \A f \in {"calc", "perf"} :
        /\ Get(dcf_out[f]).kind = "value"
        /\ Get(call_out[f]).kind = "value"
        /\ RatLess(Get(dcf_out[f]).value, Get(call_out[f]).value)

DdmOutcomes ==
    {Get(call_out[f]) : f \in {f \in {"intrinsic", "dashboard"} : ~IsNone(call_out[f])}}

\* C12: with a latest dividend d and rates r > g >= 0 the DDM functions
\* return d*(1+g)/(r-g) (stated here as v*(r-g) = d*(1+g), in tenths); and
\* whenever r <= g they return the no-result outcome and no value.
C12_GordonGrowth ==
    LET in == Get(call_in)
    IN  \A o \in DdmOutcomes :
            /\ (in.dividends.kind = "some" /\ in.required > in.growth /\ in.growth >= 0) =>
                   /\ o.kind = "value"
                   /\ IsFinite(o.value)
                   /\ o.value.n * (in.required - in.growth)
                          = in.dividends.last * (10 + in.growth) * o.value.d
            /\ in.required <= in.growth => o.kind = "none"

C12_Witness ==
    /\ Get(call_in).dividends = [kind |-> "some", last |-> 3]
    /\ Get(call_in).growth = 1
    /\ Get(call_in).required = 3
    /\ \A f \in {"intrinsic", "dashboard"} :
           /\ ~IsNone(call_out[f])
           /\ Get(call_out[f]).value = Rat(33, 2)

\* C13: with no dividend history the DDM functions return the no-result
\* outcome without raising, for every pair of rates, r <= g included: the
\* history is looked at first and the rate check is not reached.
C13_NoDividendData ==
    Get(call_in).dividends.kind = "empty" =>
        \A o \in DdmOutcomes :
            /\ o.kind = "none"
            /\ o.steps = <<"dividends", "empty">>

C13_Witness ==
    /\ Get(call_in).dividends.kind = "empty"
    /\ Get(call_in).required <= Get(call_in).growth
    /\ \A f \in {"intrinsic", "dashboard"} :
           ~IsNone(call_out[f]) /\ Get(call_out[f]).kind = "none"

(***************************************************************************)
(* The Golden Cross detector.  The properties are stated on the means of   *)
(* the windows themselves, as exact fractions.                             *)
(***************************************************************************)
RECURSIVE Total(_)
Total(s) == IF s = << >> THEN 0 ELSE Head(s) + Total(Tail(s))

\* the mean of the w samples ending at t; not a number where there are fewer
Mean(s, w, t) ==
    IF t < w \/ t < 1 \/ t > Len(s) THEN NotFinite
    ELSE Rat(Total(SubSeq(s, t - w + 1, t)), w)

\* the short average is above the long average at t
Above(s, sw, lw, t) == RatLess(Mean(s, lw, t), Mean(s, sw, t))

\* the short average crosses above the long average at t
IsCross(s, sw, lw, t) ==
    /\ Above(s, sw, lw, t)
    /\ RatLeq(Mean(s, sw, t - 1), Mean(s, lw, t - 1))

Crosses(s, sw, lw) == {t \in 1..Len(s) : IsCross(s, sw, lw, t)}

\* the call made and its result
CrossCalled == ~IsNone(call_out)

CrossResult == Get(call_out).result

\* the series the call was given (the history up to day n)
CrossSeries == SubSeq(Get(Get(call_in).df), 1, Get(call_out).n)

CrossShort == Get(call_in).short

CrossLong == Get(call_in).long

\* the call was given a series of at least long_window samples
CrossSufficient ==
    /\ CrossCalled
    /\ ~IsNone(Get(call_in).df)
    /\ Get(call_out).n >= CrossLong

\* C14: a missing series or one shorter than long_window gives (None, None);
\* a series of at least long_window samples gives a pair computed from the
\* moving averages: the flag is a boolean, the cross date none or a cross.
C14_InsufficientData ==
    CrossCalled =>
        IF CrossSufficient
        THEN /\ CrossResult.is_bullish \in {Some(TRUE), Some(FALSE)}
             /\ CrossResult.is_bullish
                    = Some(Above(CrossSeries, CrossShort, CrossLong, Len(CrossSeries)))
             /\ \/ IsNone(CrossResult.cross_date)
                \/ Get(CrossResult.cross_date) \in Crosses(CrossSeries, CrossShort, CrossLong)
        ELSE CrossResult = [cross_date |-> NoneVal, is_bullish |-> NoneVal]

\* a series of exactly long_window samples, with a boolean flag
C14_Witness ==
    /\ CrossSufficient
    /\ Get(call_out).n = CrossLong
    /\ CrossResult.is_bullish = Some(TRUE)

\* the whole series has exactly one cross, at day k, and the call was made
\* on day n >= k
SingleCrossAt(k) ==
    /\ CrossCalled
    /\ ~IsNone(Get(call_in).df)
    /\ Crosses(Get(Get(call_in).df), CrossShort, CrossLong) = {k}
    /\ Get(call_out).n >= k

\* C15 as stated: when the short average crosses above the long average
\* exactly once, at day k, the call on any day n >= k reports cross date k
\* and bullish = true.
C15_SingleCrossBullish ==
    \A k \in 1..MaxLen :
        SingleCrossAt(k) =>
            CrossResult = [cross_date |-> Some(k), is_bullish |-> Some(TRUE)]

\* C15, amended: the call on any day n >= k reports cross date k; it reports
\* bullish = true exactly when the short average is above the long average
\* on day n, as it is on day k, and bullish = false once the averages have
\* tied or inverted (which is no second cross).
C15_SingleCrossDate ==
    \A k \in 1..MaxLen :
        SingleCrossAt(k) =>
            /\ CrossResult.cross_date = Some(k)
            /\ CrossResult.is_bullish
                   = Some(Above(CrossSeries, CrossShort, CrossLong, Get(call_out).n))
            /\ Get(call_out).n = k => CrossResult.is_bullish = Some(TRUE)

\* a single cross at day k after a tie, seen on a later day, still bullish
C15_Witness ==
    \E k \in 1..MaxLen :
        /\ SingleCrossAt(k)
        /\ Get(call_out).n > k
        /\ CrossResult = [cross_date |-> Some(k), is_bullish |-> Some(TRUE)]
        /\ Mean(CrossSeries, CrossShort, k - 1) = Mean(CrossSeries, CrossLong, k - 1)

\* C19: for a series of at least long_window samples the cross date is the
\* most recent t with short[t] > long[t] and short[t-1] <= long[t-1], both
\* previous averages defined (a tie at t-1 makes t a cross); there is no
\* cross date when there is no such t.
C19_MostRecentCross ==
    CrossSufficient =>
        LET crosses == Crosses(CrossSeries, CrossShort, CrossLong)
        IN  /\ crosses = {} <=> IsNone(CrossResult.cross_date)
            /\ crosses # {} =>
                   /\ Get(CrossResult.cross_date) \in crosses
                   /\ \A t \in crosses : t <= Get(CrossResult.cross_date)

\* two crosses, the later one after a tie, and the later one reported
C19_Witness ==
    /\ CrossSufficient
    /\ Cardinality(Crosses(CrossSeries, CrossShort, CrossLong)) = 2
    /\ LET t == Get(CrossResult.cross_date)
       IN  /\ \E u \in Crosses(CrossSeries, CrossShort, CrossLong) : u < t
           /\ Mean(CrossSeries, CrossShort, t - 1) = Mean(CrossSeries, CrossLong, t - 1)

\* the short average is above the long one wherever both are defined
AboveThroughout ==
    \A t \in 1..Len(CrossSeries) :
        (t >= CrossLong /\ t >= CrossShort) => Above(CrossSeries, CrossShort, CrossLong, t)

\* C20: the bullish flag is short[last] > long[last], whether or not a cross
\* was found: a series whose short average is above the long one from the
\* first sample at which both are defined is bullish with no cross date, and
\* a series with a cross whose averages later invert reports that cross
\* date with bullish = false.
C20_BullishIsLastSample ==
    CrossSufficient =>
        LET s == CrossSeries
            crosses == Crosses(s, CrossShort, CrossLong)
            above == Above(s, CrossShort, CrossLong, Len(s))
        IN  /\ CrossResult.is_bullish = Some(above)
            /\ AboveThroughout =>
                   CrossResult = [cross_date |-> NoneVal, is_bullish |-> Some(TRUE)]
            /\ (crosses # {} /\ ~above) =>
                   /\ ~IsNone(CrossResult.cross_date)
                   /\ Get(CrossResult.cross_date) \in crosses
                   /\ CrossResult.is_bullish = Some(FALSE)

\* a cross was found and the averages have inverted since
C20_Witness ==
    /\ CrossSufficient
    /\ ~IsNone(CrossResult.cross_date)
    /\ CrossResult.is_bullish = Some(FALSE)
    /\ RatLess(Mean(CrossSeries, CrossShort, Len(CrossSeries)),
               Mean(CrossSeries, CrossLong, Len(CrossSeries)))

(***************************************************************************)
(* RSI.                                                                    *)
(***************************************************************************)
\* the deltas inside the window ending at the last sample
WindowDeltas ==
    LET close == Get(call_in).close
        last == Len(close)
    IN  {close[t] - close[t - 1] : t \in {u \in (last - Get(call_in).window + 1)..last : u >= 2}}

\* the series holds a whole window, and the window a delta
WindowFull ==
    /\ ~IsNone(call_out)
    /\ Len(Get(call_in).close) >= Get(call_in).window
    /\ WindowDeltas # {}

\* C16: when all the deltas inside the window are positive the RSI at the
\* last sample is 100, and when they are all negative it is 0.
C16_RsiBoundary ==
    WindowFull =>
        /\ (\A d \in WindowDeltas : d > 0) => Get(call_out) = Whole(100)
        /\ (\A d \in WindowDeltas : d < 0) => Get(call_out) = Whole(0)

\* a rising series longer than the default window
C16_Witness ==
    /\ WindowFull
    /\ Get(call_in).window = RsiWindow
    /\ Len(Get(call_in).close) > RsiWindow
    /\ \A d \in WindowDeltas : d > 0
    /\ Get(call_out) = Whole(100)

(***************************************************************************)
(* Fibonacci: the nearest level.                                           *)
(***************************************************************************)
\* the distance of the level at position i of the dict to the current price
FibDistance(i) == RatAbs(RatSub(Get(call_out).levels[i].value, Get(call_in).price))

\* C17: the level reported as nearest has minimal distance to the current
\* price; of several equally distant levels (all of them when high = low)
\* the first in the order 0%, 23.6%, 38.2%, 50%, 61.8%, 100% is reported;
\* for high 100, low 0 and price 51 it is the 50% level, with value 50.
C17_NearestLevel ==
    ~IsNone(call_out) =>
        LET out == Get(call_out)
            names == [i \in 1..Len(out.levels) |-> out.levels[i].name]
        IN  /\ names = <<"0% (High)", "23.6%", "38.2%", "50%", "61.8%", "100% (Low)">>
            /\ \A i \in 1..Len(out.levels) : RatLeq(FibDistance(out.closest), FibDistance(i))
            /\ \A i \in 1..(out.closest - 1) :
                   RatLess(FibDistance(out.closest), FibDistance(i))
            /\ (out.levels[1].value = out.levels[Len(out.levels)].value) => out.closest = 1
            /\ (Get(call_in).data = <<Bar(100, 0)>> /\ Get(call_in).price = Whole(51)) =>
                   out.levels[out.closest] = [name |-> "50%", value |-> Whole(50)]

\* high 100, low 0, price 55.9: as far from 61.8 as from 50, and the 38.2%
\* level (61.8), which comes first, is reported
C17_Witness ==
    /\ ~IsNone(call_out)
    /\ Get(call_in).data = <<Bar(100, 0)>>
    /\ Get(call_in).price = Rat(559, 10)
    /\ FibDistance(3) = FibDistance(4)
    /\ Get(call_out).levels[Get(call_out).closest].name = "38.2%"

(***************************************************************************)
(* process_ticker: the hourly history.                                     *)
(***************************************************************************)
\* the daily detector was reached by unit k and reported bullish
DailyBullish(k) ==
    /\ provider[k].info # "raise"
    /\ provider[k].daily # "raise"
    /\ Truthy(GoldenCrossOf[provider[k].daily].is_bullish)

\* the positions of a provider call in what unit k fetched
FetchesOf(k, call) == {i \in 1..Len(fetches[k]) : fetches[k][i] = call}

\* C18: the hourly history is fetched (and the detector run on it) if and
\* only if the daily detector reported bullish; so every row with Status
\* "Bearish" has the hourly date "N/A"; and the daily fetch comes before the
\* hourly fetch of the same ticker.
C18_HourlyOnlyIfBullish ==
    /\ \A k \in 1..N :
           unit[k] = "done" =>
               /\ FetchesOf(k, "hourly") # {} <=> DailyBullish(k)
               /\ \A h \in FetchesOf(k, "hourly") :
                      \E d \in FetchesOf(k, "daily") : d < h
               /\ future[k].value # NoneVal =>
                      (Get(future[k].value).HourlyGoldenCrossDate # "N/A" => DailyBullish(k))
    /\ \A tbl \in {results, df_results, sink.data} :
           \A n \in 1..Len(tbl) :
               tbl[n].Status = "Bearish" => tbl[n].HourlyGoldenCrossDate = "N/A"

\* a bearish ticker whose hourly history holds a cross, never fetched, next
\* to a bullish one whose hourly cross date is in the table
C18_Witness ==
    /\ \E k \in 1..N :
           /\ unit[k] = "done"
           /\ fetches[k] = <<"info", "daily">>
           /\ GoldenCrossOf[provider[k].hourly].cross_date # NoneVal
    /\ \E k \in 1..N :
           /\ unit[k] = "done"
           /\ fetches[k] = <<"info", "daily", "hourly">>
    /\ \E n \in 1..Len(df_results) :
           df_results[n].Status = "Bearish" /\ df_results[n].HourlyGoldenCrossDate = "N/A"
    /\ \E n \in 1..Len(df_results) :
           df_results[n].Status = "Bullish" /\ df_results[n].HourlyGoldenCrossDate # "N/A"

(***************************************************************************)
(* The enterprise value in closed form.  With rates in tenths,             *)
(*   fcf*(1+g)^i/(1+r)^i = fcf*(10+g)^i/(10+r)^i  and the discounted       *)
(*   terminal value is fcf*(10+g)^Y*(10+tg) / ((r-tg)*(10+r)^Y);           *)
(* the sum is taken over the common denominator (r-tg)*(10+r)^Y.           *)
(***************************************************************************)
RECURSIVE Power(_, _)
Power(b, k) == IF k <= 0 THEN 1 ELSE b * Power(b, k - 1)

RECURSIVE ExplicitNumerator(_, _, _, _, _, _)
ExplicitNumerator(fcf, Y, g, r, tg, i) ==
    IF i <= 0 THEN 0
    ELSE fcf * Power(10 + g, i) * Power(10 + r, Y - i) * (r - tg)
         + ExplicitNumerator(fcf, Y, g, r, tg, i - 1)

ClosedForm(fcf, Y, g, r, tg) ==
    Rat(ExplicitNumerator(fcf, Y, g, r, tg, Y) + fcf * Power(10 + g, Y) * (10 + tg),
        (r - tg) * Power(10 + r, Y))

\* the closed form for the inputs of the evaluation, over Y years
ClosedFormOf(Y) ==
    ClosedForm(Get(dcf_in.fcf), Y, dcf_in.growth, dcf_in.discount, dcf_in.terminal)

\* C21: with discount_rate > terminal_growth the enterprise value that
\* calculate_dcf_value computes (for one year or more) and the one that
\* perform_dcf_analysis computes (over five years) equal the closed form
\* sum of fcf*(1+g)^i/(1+r)^i plus fcf*(1+g)^Y*(1+tg)/((r-tg)*(1+r)^Y); so
\* with years = 5 the iterative projection gives the same enterprise value
\* as the power form.
C21_ClosedForm ==
    dcf_in.discount > dcf_in.terminal =>
        /\ (~IsNone(dcf_out.calc) /\ dcf_in.years >= 1) =>
               Get(dcf_out.calc).ev = ClosedFormOf(dcf_in.years)
        /\ ~IsNone(dcf_out.perf) =>
               Get(dcf_out.perf).ev = ClosedFormOf(DashboardYears)
        /\ (~IsNone(dcf_out.calc) /\ ~IsNone(dcf_out.perf)
               /\ dcf_in.years = DashboardYears) =>
               /\ IsFinite(Get(dcf_out.calc).ev)
               /\ Get(dcf_out.calc).ev = Get(dcf_out.perf).ev

\* five years, growth 10%, discount 20%, terminal growth 10%, both called
C21_Witness ==
    /\ dcf_in.years = DashboardYears
    /\ dcf_in.fcf = Some(10)
    /\ dcf_in.growth = 1 /\ dcf_in.discount = 2 /\ dcf_in.terminal = 1
    /\ ~IsNone(dcf_out.calc) /\ ~IsNone(dcf_out.perf)
    /\ IsFinite(Get(dcf_out.calc).ev)
    /\ Get(dcf_out.calc).ev = Get(dcf_out.perf).ev
    /\ Get(dcf_out.calc).ev = ClosedFormOf(DashboardYears)

(***************************************************************************)
(* process_ticker: a daily history that is empty or too short.             *)
(***************************************************************************)
\* unit k got its company facts and a daily history of fewer than
\* long_window samples
ShortDaily(k) ==
    /\ provider[k].info # "raise"
    /\ provider[k].daily \in {"empty", "short"}
    /\ Len(History(provider[k].daily)) < LongWindow

\* the row of a genuinely bearish ticker with no cross: the same ticker with
\* a long daily history that only falls
BearishRow(k) ==
    Get(process_ticker(tickers[k], [provider[k] EXCEPT !.daily = "falling"]).value)

\* C22: a ticker whose daily history is empty or shorter than 200 samples
\* gets a row with Status "Bearish" and both dates "N/A", the same row as a
\* genuinely bearish ticker with no cross, and the row is kept in the table.
C22_ShortHistoryIsBearish ==
    \A k \in 1..N :
        (ShortDaily(k) /\ unit[k] = "done") =>
            /\ future[k].kind = "return"
            /\ future[k].value # NoneVal
            /\ LET row == Get(future[k].value)
               IN  /\ row.Ticker = tickers[k]
                   /\ row.Status = "Bearish"
                   /\ row.DailyGoldenCrossDate = "N/A"
                   /\ row.HourlyGoldenCrossDate = "N/A"
                   /\ row = BearishRow(k)
                   /\ idx > k => \E n \in 1..Len(results) : results[n] = row
                   /\ pc \in {"sink", "done"} =>
                          \E n \in 1..Len(df_results) : df_results[n] = row

\* an empty daily history (and an hourly history that holds a cross) with
\* its Bearish row in the table
C22_Witness ==
    /\ pc = "done"
    /\ \E k \in 1..N :
           /\ provider[k].daily = "empty"
           /\ provider[k].hourly = "flat_then_up"
           /\ \E n \in 1..Len(df_results) :
                  /\ df_results[n].Ticker = tickers[k]
                  /\ df_results[n].Status = "Bearish"
                  /\ df_results[n].DailyGoldenCrossDate = "N/A"
                  /\ df_results[n].HourlyGoldenCrossDate = "N/A"

(***************************************************************************)
(* main: the sinks.                                                        *)
(***************************************************************************)
\* C23: once there is a result table (the ticker list was not empty) main
\* ends with the table persisted: in the timestamped CSV when
\* GOOGLE_CREDENTIALS is unset, in the spreadsheet when the upload succeeds,
\* in emergency_backup.csv when a step of the upload raises, also after the
\* worksheet was cleared.  With no tickers nothing is written.
C23_AlwaysPersisted ==
    pc = "done" =>
        IF tickers = << >>
        THEN sink.kind = "none"
        ELSE /\ sink.kind \in {"csv", "sheet", "backup"}
             /\ sink.data = df_results
             /\ ~sink.creds => sink.kind = "csv"
             /\ (sink.creds /\ sink.failed = "none") => sink.kind = "sheet"
             /\ (sink.creds /\ sink.failed # "none") => sink.kind = "backup"
             /\ sink.cleared => sink.kind \in {"sheet", "backup"}

\* the update of the cleared worksheet failed and the backup holds the rows
C23_Witness ==
    /\ pc = "done"
    /\ sink.kind = "backup"
    /\ sink.cleared
    /\ sink.failed = "update"
    /\ sink.data # << >>
    /\ sink.data = df_results

(***************************************************************************)
(* earnings_calendar_sync: the earnings dates of each ticker are put into  *)
(* the calendar.  A timestamp is a number of half days (UTC); an even      *)
(* timestamp lies in the small hours of its UTC day, when New York is      *)
(* still in the day before.  A ticker is its place in TICKERS.             *)
(***************************************************************************)
SyncTickers == 2     \* length of TICKERS
MaxRuns == 2         \* runs of the script
MaxNow == 2          \* latest time a run reads
HeadRows == 4        \* future_earnings.head(4)

\* earnings_date_utc.astimezone(local_tz).replace(hour=16, minute=15, ...):
\* the local day whose 16:15 starts the event
event_datetime_local(t) == IF t % 2 = 0 THEN (t \div 2) - 1 ELSE t \div 2

\* f"{ticker} Earnings (Est.)"
event_summary(ticker) == ticker

Event(summary, start) == [summary |-> summary, start |-> start]

\* earnings_history[earnings_history.index > now]
FutureEarnings(earnings_history, now) ==
    SelectSeq(earnings_history, LAMBDA t : t > now)

\* frame.head(n)
FirstRows(frame, n) ==
    IF Len(frame) <= n THEN frame ELSE SubSeq(frame, 1, n)

\* A mutant of ExistingEvents: the calendar is never found to hold the event.
ExistingEventsNone(events, summary, start) == {}

\* service.events().list(timeMin=start, timeMax=start + 1 hour, q=summary):
\* the events of the calendar with this summary that lie in the hour from
\* 16:15 of that day
ExistingEvents(events, summary, start) ==
    {e \in BagToSet(events) : e.summary = summary /\ e.start = start}

\* stock.earnings_dates as the provider gives it, latest date first
EarningsHistories ==
    { << >>,
      <<4, 3, -2>>,
      <<9, 7, 5, 3, 1, -1>> }

\* the script between two runs
SyncIdle(data, now, runs, last, visited, failed, head) ==
    [data |-> data, now |-> now, runs |-> runs, last |-> last, pc |-> "idle",
     k |-> 0, rows |-> << >>, visited |-> visited, failed |-> failed,
     head |-> head]

NoHead == [k \in 1..SyncTickers |-> << >>]

\* the for loop goes on with the next ticker
NextTicker(s) == [s EXCEPT !.pc = "fetch", !.k = s.k + 1, !.rows = << >>]

\* except Exception as e: print(...), and the for loop goes on
TickerFails(s) == NextTicker([s EXCEPT !.failed = s.failed \cup {s.k}])

\* the script is started: authenticate_google_calendar() returns the service
\* or raises, and then nothing is fetched
SyncStart ==
    /\ sync.pc = "idle"
    /\ sync.runs < MaxRuns
    /\ \E authenticated \in BOOLEAN :
           sync' = IF authenticated
                   THEN [sync EXCEPT !.pc = "fetch", !.k = 1,
                                     !.runs = sync.runs + 1, !.last = "running",
                                     !.visited = {}, !.failed = {},
                                     !.head = NoHead]
                   ELSE [sync EXCEPT !.runs = sync.runs + 1, !.last = "raised",
                                     !.visited = {}, !.failed = {},
                                     !.head = NoHead]
    /\ UNCHANGED <<calendar, dcf_in, dcf_out, call_in, call_out, scanVars>>

\* one ticker of the for loop up to future_earnings.head(4): the earnings
\* dates are fetched (which may raise) and the clock is read
SyncFetch ==
    /\ sync.pc = "fetch"
    /\ sync.k <= SyncTickers
    /\ \E now \in sync.now..MaxNow, ok \in BOOLEAN :
           LET s == [sync EXCEPT !.now = now,
                                 !.visited = sync.visited \cup {sync.k}]
               future_earnings == FutureEarnings(sync.data[sync.k], now)
               rows == FirstRows(future_earnings, HeadRows)
           IN  sync' = IF ~ok THEN TickerFails(s)
                       ELSE IF future_earnings = << >> THEN NextTicker(s)
                       ELSE [s EXCEPT !.pc = "row", !.rows = rows,
                                      !.head[sync.k] = rows]
    /\ UNCHANGED <<calendar, dcf_in, dcf_out, call_in, call_out, scanVars>>

\* one row of future_earnings: the calendar is asked for the event and the
\* event is inserted if it is not there.  Either request may raise; an
\* insert that raised may have reached the calendar.
SyncRow ==
    /\ sync.pc = "row"
    /\ LET summary == event_summary(sync.k)
           start == event_datetime_local(Head(sync.rows))
           existing_events == ExistingEvents(calendar, summary, start)
           inserted == calendar (+) SetToBag({Event(summary, start)})
           rest == Tail(sync.rows)
           done == IF rest = << >> THEN NextTicker(sync)
                   ELSE [sync EXCEPT !.rows = rest]
       IN  \E outcome \in {"ok", "list_raises", "insert_raises", "reply_lost"} :
               /\ outcome \in {"insert_raises", "reply_lost"} =>
                      existing_events = {}
               /\ sync' = IF outcome = "ok" THEN done ELSE TickerFails(sync)
               /\ calendar' = IF /\ outcome \in {"ok", "reply_lost"}
                                 /\ existing_events = {}
                              THEN inserted
                              ELSE calendar
    /\ UNCHANGED <<dcf_in, dcf_out, call_in, call_out, scanVars>>

\* the for loop is over: "Earnings calendar sync complete!"
SyncEnd ==
    /\ sync.pc = "fetch"
    /\ sync.k > SyncTickers
    /\ sync' = [sync EXCEPT !.pc = "idle", !.k = 0, !.last = "complete"]
    /\ UNCHANGED <<calendar, dcf_in, dcf_out, call_in, call_out, scanVars>>

InitSync ==
    /\ calendar = EmptyBag
    /\ \E data \in [1..SyncTickers -> EarningsHistories] :
           sync = SyncIdle(data, 0, 0, "none", {}, {}, NoHead)
    /\ DcfIdle
    /\ ScanIdle

NextSync == SyncStart \/ SyncFetch \/ SyncRow \/ SyncEnd

SpecSync == InitSync /\ [][NextSync]_vars

\* how many events of the calendar have this summary
RECURSIVE CountIn(_, _)
CountIn(events, S) ==
    IF S = {} THEN 0
    ELSE LET e == CHOOSE x \in S : TRUE
         IN  events[e] + CountIn(events, S \ {e})

EventsOf(summary) ==
    CountIn(calendar, {e \in BagToSet(calendar) : e.summary = summary})

\* the days of the rows of a frame
DaysOf(rows) == {event_datetime_local(rows[i]) : i \in 1..Len(rows)}

\* at most one event for a ticker and a day, at most four for a ticker, and
\* after a complete run every ticker was gone through and every ticker that
\* did not raise has the events of its dates
SyncInvariant ==
    /\ \A e \in BagToSet(calendar) : CopiesIn(e, calendar) = 1
    /\ \A k \in 1..SyncTickers : EventsOf(event_summary(k)) <= HeadRows
    /\ (sync.pc = "idle" /\ sync.last = "complete") =>
           /\ sync.visited = 1..SyncTickers
           /\ \A k \in (1..SyncTickers) \ sync.failed :
                  \A d \in DaysOf(sync.head[k]) :
                      BagIn(Event(event_summary(k), d), calendar)

\* the calendar changes by one event, of the row at hand, that it did not hold
InsertOnlyWhenAbsent ==
    calendar' # calendar =>
        /\ sync.pc = "row"
        /\ LET summary == event_summary(sync.k)
               start == event_datetime_local(Head(sync.rows))
           IN  /\ calendar' = calendar (+) SetToBag({Event(summary, start)})
               /\ ~BagIn(Event(summary, start), calendar)

\* C24: an event is inserted for a ticker's earnings date only when the
\* calendar holds no event with the same summary at 16:15 of that day, so
\* however often the script runs over the same earnings data there is at most
\* one event per ticker and day and at most 4 per ticker; and a ticker that
\* raises does not keep the tickers after it from being processed.
C24_IdempotentIsolated ==
    /\ []SyncInvariant
    /\ [][InsertOnlyWhenAbsent]_vars

\* after the last complete run, made at a later time than the start, the
\* first ticker raised and the last, with more than four dates to come, has
\* its four rows and holds four events
C24_Witness ==
    /\ sync.pc = "idle"
    /\ sync.last = "complete"
    /\ sync.runs = MaxRuns
    /\ sync.now > 0
    /\ sync.failed = {1}
    /\ Len(sync.data[SyncTickers]) > HeadRows + 1
    /\ EventsOf(event_summary(SyncTickers)) = HeadRows
    /\ Len(sync.head[SyncTickers]) = HeadRows

=============================================================================
